---- MODULE Spec2Model ----
(***************************************************************************)
(* The build slave of piwheels: the session loop of PiWheelsSlave.__call__ *)
(* (src/piwheels/slave/__init__.py), its reply handlers, and the parts of  *)
(* PiWheelsBuilder (src/piwheels/slave/builder.py) the handlers call.      *)
(*                                                                         *)
(* Python values: None is the empty tuple and an object reference x is the *)
(* one-element tuple <<x>>, so that "is None" is a comparison of tuples.   *)
(* An exception is the name of its class; "" means that nothing was raised.*)
(* Time is counted in seconds, the unit of sleep().                         *)
(***************************************************************************)
EXTENDS Integers, Sequences, FiniteSets, TLC

(* ------------------------------ bounds --------------------------------- *)

\* Sockets the worker opens to the master in one run (1 + the timeouts).
MaxConnections == 3

\* Replies the master sends in one run.
MaxReplies == 4

\* The largest identifier the master hands out.
MaxId == 2

\* The length of the file a transfer serves, in bytes; the peer asks for
\* offsets and sizes up to it, so for ranges inside, across and past the end.
MaxFileLen == 2

\* Messages the peer sends in one transfer.
MaxRequests == 2

\* Greetings one transfer sends.
MaxHellos == 2

\* The longest timeout a build is given, in waits of the supervisor.
MaxTimeoutWaits == 2

\* The calls of clean() on one PiWheelsBuilder.
MaxCleans == 2

\* The longest stem of a wheel's name, in characters.
MaxStemLen == 7

(* ------------------------- program constants --------------------------- *)

\* randint(5, 15): both ends included.
SleepMin == 5

SleepMax == 15

\* What randint(5, 15) may return.
SleepChoices == SleepMin .. SleepMax

(* ------------------------------ values --------------------------------- *)

None == <<>>

Some(x) == <<x>>

The(o) == o[1]

\* The identifiers the master may send: the code takes any integer.
Ids == (0 - 1) .. MaxId

Urls == {"https://a/simple", "https://b/simple"}

Packages == {"foo", "bar"}

Versions == {"1.0"}

\* Names of the wheels a build may leave in the working directory.
Wheels == {"foo-1.0-cp34-cp34m-linux_armv7l.whl", "foo-1.0-py3-none-any.whl"}

\* What glob('*.whl') yields after a build: the wheels, in directory order.
WheelLists == {<<>>} \cup {<<w>> : w \in Wheels}
                \cup {<<v, w>> : <<v, w>> \in {p \in Wheels \X Wheels : p[1] # p[2]}}

\* What the child process of a build does: Popen itself fails; the child
\* exits with 0 or with another code within the first wait(10); or it is
\* still running when the first wait(10) expires.
BuildOutcomes == {"spawn_error", "exit0", "nonzero", "slow"}

\* A message of the session channel: the tag and its positional arguments.
\* idkind tells what new_id is: "int", an integer (id), or "text", a string
\* that is no number.
Msg(tag) ==
    [tag |-> tag, idkind |-> "int", id |-> 0, url |-> "", package |-> "",
     version |-> "", filename |-> ""]

\* int(x): the integer an integer is, ValueError for a string that is none.
int(kind, v) ==
    IF kind = "int" THEN [exc |-> "", val |-> v]
    ELSE [exc |-> "ValueError", val |-> 0]

\* The keys of the dispatch table of handle_reply.
ReplyTags == {"HELLO", "SLEEP", "BUILD", "SEND", "DONE", "BYE"}

\* Tags that are no key of the table; the repository's tests send ACK and DIE.
UnknownTags == {"FOO", "ACK", "DIE"}

\* What the master may send in reply, each with the arguments its handler
\* takes.
Replies ==
    {[Msg("HELLO") EXCEPT !.id = i, !.url = u] : i \in Ids, u \in Urls}
    \cup {[Msg("HELLO") EXCEPT !.idkind = "text", !.url = u] : u \in Urls}
    \cup {[Msg("ACK") EXCEPT !.id = i, !.url = u] : i \in Ids, u \in Urls}
    \cup {[Msg("BUILD") EXCEPT !.package = p, !.version = v] :
            p \in Packages, v \in Versions}
    \cup {[Msg("SEND") EXCEPT !.filename = f] : f \in Wheels}
    \cup {Msg(t) : t \in {"SLEEP", "DONE", "BYE"} \cup (UnknownTags \ {"ACK"})}

\* The requests of the worker that expect a reply.
RequestTags == {"HELLO", "IDLE", "BUILT", "SENT"}

(* ------------------------------- state --------------------------------- *)

VARIABLES
    pc,         \* where PiWheelsSlave.__call__ stands
    euid,       \* os.geteuid()
    slave_id,   \* self.slave_id
    builder,    \* self.builder
    pypi_url,   \* self.pypi_url
    queue,      \* the local queue of __call__: None or the socket's number
    request,    \* the local request of __call__: None or a message
    reply,      \* the last reply received: None or a message
    exc,        \* the exception that is propagating out of __call__, or ""
    exit_code,  \* what __call__ returned: None until it returns
    pause,      \* seconds the worker slept since the last reply arrived
    nconn,      \* sockets opened so far
    nreplies,   \* replies received so far
    log,        \* what happened on the sockets and on disk, in order
    acked       \* the id and URL of the HELLO reply that do_hello took on
                \* the socket that is open: None before it and after a timeout

vars ==
    <<pc, euid, slave_id, builder, pypi_url, queue, request, reply, exc,
      exit_code, pause, nconn, nreplies, log, acked>>

\* PiWheelsPackage.transfer, entered from do_send (line 234).
VARIABLES
    t_pc,       \* where transfer() stands: "idle" outside it, "poll" in its
                \* loop, "returned", or "raised"
    t_exc,      \* the exception that left transfer(), or ""
    wheel,      \* the bytes of the file that self.open() opened
    fpos,       \* the position of f
    timeout,    \* the local timeout of transfer()
    waited,     \* how long the current queue.poll(timeout) has waited
    inbox,      \* what the peer sent and the socket holds, oldest first
    tlog        \* what transfer() received and sent, in order

tvars == <<t_pc, t_exc, wheel, fpos, timeout, waited, inbox, tlog>>

\* PiWheelsBuilder.build, entered from do_build (line 208).
VARIABLES
    b_pc,       \* where build() stands: "idle" outside it
    tmo,        \* the timeout argument: its type and its seconds
    proc,       \* the local proc: None until Popen returned, then the child
    elapsed,    \* seconds since start (line 356)
    error,      \* the local error: "" for None, else the exception's class
    b_exc,      \* the exception that left build(), or ""
    signals     \* what build() sent to the child, in order

bvars == <<b_pc, tmo, proc, elapsed, error, b_exc, signals>>

\* PiWheelsPackage, made by build() for a file of the working directory.
VARIABLES
    p_pc,       \* "idle" outside it, "new" before __init__, then "made",
                \* "read" after the tag properties were read, or "raised"
    stem,       \* path.stem, a sequence of characters
    parts,      \* self._parts: None until __init__ set it
    tags,       \* what the tag properties returned: None until they were read
    p_exc       \* the exception that left __init__ or a property, or ""

pvars == <<p_pc, stem, parts, tags, p_exc>>

\* One entry of the log.
Event(ev, conn, tag) == [ev |-> ev, conn |-> conn, tag |-> tag]

\* The handlers' steps, as log entries of the connection they ran under.
Events(evs, conn) == [i \in 1 .. Len(evs) |-> Event(evs[i], conn, "")]

\* The steps of a reply's handler; a build is entered with the index URL
\* it was given.
HandlerEvents(r, conn) ==
    [i \in 1 .. Len(r.evs) |->
       Event(r.evs[i], conn,
             IF r.evs[i] = "build" /\ r.index # None THEN The(r.index)
             ELSE "")]

(* -------------------------- PiWheelsBuilder ---------------------------- *)

\* PiWheelsBuilder.__init__
PiWheelsBuilder(package, version) ==
    [package |-> package, version |-> version, wheel_dir |-> FALSE,
     status |-> FALSE, files |-> <<>>, output |-> ""]

\* PiWheelsBuilder.build(timeout, pypi_index): the builder afterwards and the
\* exception build() raises, if any.  The timeout do_build passes is the
\* float that duration() returns.
\*   spawn_error: Popen raises, the handler at line 385 keeps the error, and
\*     line 390 reads the unbound local proc: UnboundLocalError leaves build().
\*   slow: the first wait(10) raises TimeoutExpired and line 376 compares a
\*     timedelta with the float timeout: the TypeError is kept as the error,
\*     the child is left running with returncode None, so status is False.
\* index is the --index-url the child is given (line 341).
build(b, pypi_index, outcome, whl) ==
    LET made == [b EXCEPT !.wheel_dir = TRUE]
    IN CASE outcome = "spawn_error" ->
              [builder |-> made, exc |-> "UnboundLocalError",
               index |-> pypi_index]
         [] outcome = "exit0" ->
              [builder |-> [made EXCEPT !.status = TRUE, !.output = "log",
                                        !.files = whl],
               exc |-> "", index |-> pypi_index]
         [] outcome = "nonzero" ->
              [builder |-> [made EXCEPT !.output = "log"], exc |-> "",
               index |-> pypi_index]
         [] OTHER ->
              [builder |-> [made EXCEPT !.output = "log+error"], exc |-> "",
               index |-> pypi_index]

\* clean() that removes the directory and still holds it.
clean_KeepsDir(b) == b

\* PiWheelsBuilder.clean
clean(b) == IF b.wheel_dir THEN [b EXCEPT !.wheel_dir = FALSE] ELSE b

(* ---------------------------- the handlers ----------------------------- *)

\* What a handler leaves: the fields of self, the request it returns (None
\* ends the loop), the exception it raises, the steps it took and the
\* seconds it slept.
Return(self, ret) ==
    [slave_id |-> self.slave_id, builder |-> self.builder,
     pypi_url |-> self.pypi_url, ret |-> ret, exc |-> "", evs |-> <<>>,
     slept |-> 0, index |-> None]

Raise(self, e) == [Return(self, None) EXCEPT !.exc = e]

\* do_hello without line 181: the URL of the reply is not kept.
do_hello_DropsUrl(self, m) ==
    IF self.slave_id # None THEN Raise(self, "AssertionError")
    ELSE LET n == int(m.idkind, m.id)
         IN IF n.exc # "" THEN Raise(self, n.exc)
            ELSE [Return(self, Some(Msg("IDLE"))) EXCEPT
                    !.slave_id = Some(n.val)]

\* do_hello that keeps a URL it already holds.
do_hello_KeepsUrl(self, m) ==
    IF self.slave_id # None THEN Raise(self, "AssertionError")
    ELSE LET n == int(m.idkind, m.id)
         IN IF n.exc # "" THEN Raise(self, n.exc)
            ELSE [Return(self, Some(Msg("IDLE"))) EXCEPT
                    !.slave_id = Some(n.val),
                    !.pypi_url = IF self.pypi_url # None THEN self.pypi_url
                                 ELSE Some(m.url)]

\* PiWheelsSlave.do_hello
do_hello(self, m) ==
    IF self.slave_id # None THEN Raise(self, "AssertionError")
    ELSE LET n == int(m.idkind, m.id)
         IN IF n.exc # "" THEN Raise(self, n.exc)
            ELSE [Return(self, Some(Msg("IDLE"))) EXCEPT
                    !.slave_id = Some(n.val), !.pypi_url = Some(m.url)]

\* do_sleep without the assert of line 192.
do_sleep_NoAssert(self, d) ==
    [Return(self, Some(Msg("IDLE"))) EXCEPT !.evs = <<"sleep">>, !.slept = d]

\* do_sleep without its sleep (what the tests' patched randint gives).
do_sleep_NoPause(self, d) ==
    IF self.slave_id = None THEN Raise(self, "AssertionError")
    ELSE [Return(self, Some(Msg("IDLE"))) EXCEPT !.evs = <<"sleep">>]

\* PiWheelsSlave.do_sleep; d is what randint(5, 15) returned.
do_sleep(self, d) ==
    IF self.slave_id = None THEN Raise(self, "AssertionError")
    ELSE [Return(self, Some(Msg("IDLE"))) EXCEPT
            !.evs = <<"sleep">>, !.slept = d]

\* PiWheelsSlave.do_build.  Line 212 subscripts self.builder.as_message,
\* which builder.py:307 defines as a plain method (no @property): the
\* subscript raises TypeError, after the build and before any BUILT message
\* exists.
do_build(self, m, outcome, whl) ==
    IF self.slave_id = None THEN Raise(self, "AssertionError")
    ELSE IF self.builder # None THEN Raise(self, "AssertionError")
    ELSE LET r == build(PiWheelsBuilder(m.package, m.version),
                        self.pypi_url, outcome, whl)
         IN [Raise(self, IF r.exc # "" THEN r.exc ELSE "TypeError") EXCEPT
               !.builder = Some(r.builder), !.evs = <<"build">>,
               !.index = r.index]

\* PiWheelsSlave.do_send.  transfer() returns when the peer sends DONE.
do_send(self, m) ==
    IF self.slave_id = None THEN Raise(self, "AssertionError")
    ELSE IF self.builder = None THEN Raise(self, "AssertionError")
    ELSE IF ~The(self.builder).status THEN Raise(self, "AssertionError")
    ELSE LET files == The(self.builder).files
             pkg == SelectSeq(files, LAMBDA f : f = m.filename)
         IN IF pkg = <<>> THEN Raise(self, "IndexError")
            ELSE [Return(self, Some(Msg("SENT"))) EXCEPT
                    !.evs = <<"transfer_open", "transfer_hello",
                              "transfer_done", "transfer_close">>]

\* do_done without the asserts of lines 245-246.
do_done_NoAsserts(self) ==
    [Return(self, Some(Msg("IDLE"))) EXCEPT
       !.builder = None, !.evs = <<"clean">>]

\* PiWheelsSlave.do_done
do_done(self) ==
    IF self.slave_id = None THEN Raise(self, "AssertionError")
    ELSE IF self.builder = None THEN Raise(self, "AssertionError")
    ELSE [Return(self, Some(Msg("IDLE"))) EXCEPT
            !.builder = None, !.evs = <<"clean">>]

\* do_bye that, like the other handlers, asserts that HELLO came first.
do_bye_NeedsHello(self) ==
    IF self.slave_id = None THEN Raise(self, "AssertionError")
    ELSE IF self.builder # None
    THEN [Return(self, None) EXCEPT
            !.builder = Some(clean(The(self.builder))), !.evs = <<"clean">>]
    ELSE Return(self, None)

\* PiWheelsSlave.do_bye
do_bye(self) ==
    IF self.builder # None
    THEN [Return(self, None) EXCEPT
            !.builder = Some(clean(The(self.builder))), !.evs = <<"clean">>]
    ELSE Return(self, None)

\* handle_reply that skips a tag it does not know and asks for work again.
handle_reply_IgnoreUnknown(self, m, d, outcome, whl) ==
    CASE m.tag = "HELLO" -> do_hello(self, m)
      [] m.tag = "SLEEP" -> do_sleep(self, d)
      [] m.tag = "BUILD" -> do_build(self, m, outcome, whl)
      [] m.tag = "SEND" -> do_send(self, m)
      [] m.tag = "DONE" -> do_done(self)
      [] m.tag = "BYE" -> do_bye(self)
      [] OTHER -> Return(self, Some(Msg("IDLE")))

\* PiWheelsSlave.handle_reply: the dispatch on the reply's tag.  d, outcome
\* and whl are what the environment decides while the handler runs.
handle_reply(self, m, d, outcome, whl) ==
    CASE m.tag = "HELLO" -> do_hello(self, m)
      [] m.tag = "SLEEP" -> do_sleep(self, d)
      [] m.tag = "BUILD" -> do_build(self, m, outcome, whl)
      [] m.tag = "SEND" -> do_send(self, m)
      [] m.tag = "DONE" -> do_done(self)
      [] m.tag = "BYE" -> do_bye(self)
      [] OTHER -> Raise(self, "AssertionError")

\* The timeout branch without line 125: the identifier survives.
poll_timeout_KeepsId(self, q) ==
    [slave_id |-> self.slave_id, builder |-> None, queue |-> None,
     request |-> None,
     evs |-> (IF self.builder # None THEN <<"clean">> ELSE <<>>) \o <<"close">>]

\* The timeout branch without line 127: the closed socket stays in queue.
poll_timeout_KeepsQueue(self, q) ==
    [slave_id |-> None, builder |-> None, queue |-> q, request |-> None,
     evs |-> (IF self.builder # None THEN <<"clean">> ELSE <<>>) \o <<"close">>]

\* The else branch of the poll in __call__ (lines 119-129): what the worker
\* holds after a round trip timed out.
poll_timeout(self, q) ==
    [slave_id |-> None, builder |-> None, queue |-> None, request |-> None,
     evs |-> (IF self.builder # None THEN <<"clean">> ELSE <<>>) \o <<"close">>]

(* ------------------------------ actions -------------------------------- *)

\* No transfer is under way: do_send has not been entered.
NotTransferring ==
    /\ t_pc = "idle"
    /\ t_exc = ""
    /\ wheel = <<>>
    /\ fpos = 0
    /\ timeout = 0
    /\ waited = 0
    /\ inbox = <<>>
    /\ tlog = <<>>

\* No build is under way: build() is entered and left within do_build.
NotBuilding ==
    /\ b_pc = "idle"
    /\ tmo = None
    /\ proc = None
    /\ elapsed = 0
    /\ error = ""
    /\ b_exc = ""
    /\ signals = <<>>

\* No PiWheelsPackage is being made.
NoPackage ==
    /\ p_pc = "idle"
    /\ stem = <<>>
    /\ parts = None
    /\ tags = None
    /\ p_exc = ""

Self == [slave_id |-> slave_id, builder |-> builder, pypi_url |-> pypi_url]

Init ==
    /\ pc = "start"
    /\ euid \in {0, 1000}
    /\ slave_id = None
    /\ builder = None
    /\ pypi_url = None
    /\ queue = None
    /\ request = None
    /\ reply = None
    /\ exc = ""
    /\ exit_code = None
    /\ pause = 0
    /\ nconn = 0
    /\ nreplies = 0
    /\ log = <<>>
    /\ acked = None
    /\ NotTransferring
    /\ NotBuilding
    /\ NoPackage

\* __call__ without the check of lines 97-99.
Start_NoRootCheck ==
    /\ pc = "start"
    /\ pc' = "connect"
    /\ UNCHANGED <<euid, slave_id, builder, pypi_url, queue, request, reply,
                   exc, exit_code, pause, nconn, nreplies, log>>
    /\ UNCHANGED <<acked, tvars, bvars, pvars>>

\* __call__, lines 96-101: a worker started as root returns 1.
Start ==
    /\ pc = "start"
    /\ IF euid = 0
       THEN pc' = "refused" /\ exit_code' = Some(1)
       ELSE pc' = "connect" /\ exit_code' = exit_code
    /\ UNCHANGED <<euid, slave_id, builder, pypi_url, queue, request, reply,
                   exc, pause, nconn, nreplies, log>>
    /\ UNCHANGED <<acked, tvars, bvars, pvars>>

\* __call__, lines 104-113: a new socket and the HELLO request.
Connect ==
    /\ pc = "connect"
    /\ nconn' = nconn + 1
    /\ queue' = Some(nconn + 1)
    /\ request' = Some(Msg("HELLO"))
    /\ log' = Append(log, Event("connect", nconn + 1, ""))
    /\ pc' = "send"
    /\ UNCHANGED <<euid, slave_id, builder, pypi_url, reply, exc, exit_code,
                   pause, nreplies>>
    /\ UNCHANGED <<acked, tvars, bvars, pvars>>

\* __call__, line 115: the request goes out.
Send ==
    /\ pc = "send"
    /\ log' = Append(log, Event("send", The(queue), The(request).tag))
    /\ pc' = "poll"
    /\ UNCHANGED <<euid, slave_id, builder, pypi_url, queue, request, reply,
                   exc, exit_code, pause, nconn, nreplies>>
    /\ UNCHANGED <<acked, tvars, bvars, pvars>>

\* __call__, lines 116-118: a reply arrives within the wait and its handler
\* runs.  A handler that raises leaves the loop for the finally clause; one
\* that returns None ends the inner loop with the socket open, so the outer
\* loop breaks.
Recv ==
    /\ pc = "poll"
    /\ nreplies < MaxReplies
    /\ \E m \in Replies :
       \E d \in (IF m.tag = "SLEEP" THEN SleepChoices ELSE {0}) :
       \E outcome \in (IF m.tag = "BUILD" THEN BuildOutcomes ELSE {"exit0"}) :
       \E whl \in (IF m.tag = "BUILD" /\ outcome = "exit0"
                   THEN WheelLists ELSE {<<>>}) :
          LET r == handle_reply(Self, m, d, outcome, whl)
          IN /\ reply' = Some(m)
             /\ slave_id' = r.slave_id
             /\ builder' = r.builder
             /\ pypi_url' = r.pypi_url
             /\ exc' = r.exc
             /\ request' = r.ret
             /\ pause' = r.slept
             /\ log' = Append(log, Event("recv", The(queue), m.tag))
                         \o HandlerEvents(r, The(queue))
             /\ pc' = IF r.exc # "" \/ r.ret = None THEN "finally" ELSE "send"
             /\ acked' = IF m.tag = "HELLO" /\ r.exc = ""
                         THEN Some([id |-> m.id, url |-> m.url])
                         ELSE acked
    /\ nreplies' = nreplies + 1
    /\ UNCHANGED <<euid, queue, exit_code, nconn>>
    /\ UNCHANGED <<tvars, bvars, pvars>>

\* __call__, lines 119-132: no reply within the wait.
Timeout ==
    /\ pc = "poll"
    /\ nconn < MaxConnections
    /\ LET r == poll_timeout(Self, queue)
       IN /\ slave_id' = r.slave_id
          /\ builder' = r.builder
          /\ queue' = r.queue
          /\ request' = r.request
          /\ log' = Append(log, Event("timeout", The(queue), ""))
                      \o Events(r.evs, The(queue))
          /\ pc' = IF r.request # None THEN "send"
                   ELSE IF r.queue # None THEN "finally" ELSE "connect"
    /\ pause' = 0
    /\ acked' = None
    /\ UNCHANGED <<euid, pypi_url, reply, exc, exit_code, nconn, nreplies>>
    /\ UNCHANGED <<tvars, bvars, pvars>>

\* The finally clause without line 135.
Finally_NoBye ==
    /\ pc = "finally"
    /\ pc' = "done"
    /\ exit_code' = IF exc = "" THEN Some(0) ELSE None
    /\ UNCHANGED <<euid, slave_id, builder, pypi_url, queue, request, reply,
                   exc, pause, nconn, nreplies, log>>
    /\ UNCHANGED <<acked, tvars, bvars, pvars>>

\* __call__, lines 133-137: the farewell on the socket that is open, and the
\* end of the run: 0 after a BYE of the master, none when an exception
\* leaves __call__.
Finally ==
    /\ pc = "finally"
    /\ log' = Append(log, Event("send", The(queue), "BYE"))
    /\ pc' = "done"
    /\ exit_code' = IF exc = "" THEN Some(0) ELSE None
    /\ UNCHANGED <<euid, slave_id, builder, pypi_url, queue, request, reply,
                   exc, pause, nconn, nreplies>>
    /\ UNCHANGED <<acked, tvars, bvars, pvars>>

Next == Start \/ Connect \/ Send \/ Recv \/ Timeout \/ Finally

Spec == Init /\ [][Next]_vars

(* ---------------------- PiWheelsPackage.transfer ----------------------- *)

\* timeout = 5 (line 272): the wait of every poll but the first.
PollWindow == 5

\* The file a transfer serves: byte i of it is the number i, so that every
\* range of the file differs from every other.
WheelFiles == {[i \in 1 .. MaxFileLen |-> i]}

\* A message of the transfer channel.  kind tells what the arguments of a
\* FETCH are: "int", the digits of offset and size, or "text".
TMsg(tag) ==
    [tag |-> tag, kind |-> "int", offset |-> 0, size |-> 0, data |-> <<>>,
     id |-> 0]

\* What the peer may send: FETCH for a range inside, across or past the end
\* of the file, FETCH with arguments that are no numbers, DONE, and a tag
\* transfer() does not know.
PeerMessages ==
    {[TMsg("FETCH") EXCEPT !.offset = o, !.size = n] :
        o \in 0 .. MaxFileLen, n \in 1 .. MaxFileLen}
    \cup {[TMsg("FETCH") EXCEPT !.kind = "text"], TMsg("DONE"), TMsg("NOP")}

\* One entry of tlog.
TEvent(ev, m) == [ev |-> ev, msg |-> m]

\* f.read(n) at position pos: the n bytes that follow, or as many as the
\* file still has.
read(file, pos, n) ==
    IF pos >= Len(file) \/ n = 0 THEN <<>>
    ELSE SubSeq(file, pos + 1, IF pos + n <= Len(file) THEN pos + n
                               ELSE Len(file))

\* Lines 283-284 without the seek: the read starts where the last one ended.
Fetch_NoSeek(file, pos, offset, size) ==
    LET data == read(file, pos, size)
    IN [data |-> data, pos |-> pos + Len(data)]

\* Lines 283-284: f.seek(offset), then f.read(size).
Fetch(file, pos, offset, size) ==
    LET data == read(file, offset, size)
    IN [data |-> data, pos |-> offset + Len(data)]

\* The greetings transfer() has sent.
Hellos ==
    Cardinality({i \in DOMAIN tlog :
                   tlog[i].ev = "send" /\ tlog[i].msg.tag = "HELLO"})

\* The messages transfer() has received.
Received == Cardinality({i \in DOMAIN tlog : tlog[i].ev = "recv"})

\* do_send, lines 223-234: the worker has an id and a successful build, the
\* wheel is open and transfer() is about to poll for the first time.  The
\* socket is new, so nothing has arrived on it.
TransferInit ==
    /\ pc = "do_send"
    /\ euid = 1000
    /\ slave_id \in {Some(1), Some(MaxId)}
    /\ pypi_url = Some("https://a/simple")
    /\ builder = Some(build(PiWheelsBuilder("foo", "1.0"), pypi_url, "exit0",
                            <<"foo-1.0-py3-none-any.whl">>).builder)
    /\ queue = Some(1)
    /\ request = Some(Msg("IDLE"))
    /\ reply = Some([Msg("SEND") EXCEPT
                       !.filename = "foo-1.0-py3-none-any.whl"])
    /\ exc = ""
    /\ exit_code = None
    /\ pause = 0
    /\ nconn = 1
    /\ nreplies = 1
    /\ log = <<>>
    /\ acked = Some([id |-> The(slave_id), url |-> The(pypi_url)])
    /\ NotBuilding
    /\ NoPackage
    /\ t_pc = "poll"
    /\ t_exc = ""
    /\ wheel \in WheelFiles
    /\ fpos = 0
    /\ timeout = 0
    /\ waited = 0
    /\ inbox = <<>>
    /\ tlog = <<>>

\* queue.poll(timeout), line 265: the wait passes and nothing arrives.
TransferWait ==
    /\ t_pc = "poll"
    /\ inbox = <<>>
    /\ waited < timeout
    /\ waited' = timeout
    /\ UNCHANGED <<t_pc, t_exc, wheel, fpos, timeout, inbox, tlog>>
    /\ UNCHANGED <<vars, bvars, pvars>>

\* Lines 265-276 where only the first poll that fails sends the greeting.
TransferPollTimeout_GreetsOnce ==
    /\ t_pc = "poll"
    /\ inbox = <<>>
    /\ waited = timeout
    /\ Hellos < MaxHellos
    /\ tlog' = IF Hellos = 0
               THEN tlog \o <<TEvent("send", [TMsg("HELLO") EXCEPT
                                                !.id = The(slave_id)]),
                              TEvent("watchdog_ping", TMsg(""))>>
               ELSE tlog
    /\ timeout' = PollWindow
    /\ waited' = 0
    /\ UNCHANGED <<t_pc, t_exc, wheel, fpos, inbox>>
    /\ UNCHANGED <<vars, bvars, pvars>>

\* Lines 265-276: the poll ends with nothing to receive; HELLO goes out,
\* the next polls wait 5 and the watchdog is pinged.
TransferPollTimeout ==
    /\ t_pc = "poll"
    /\ inbox = <<>>
    /\ waited = timeout
    /\ Hellos < MaxHellos
    /\ tlog' = tlog \o <<TEvent("send", [TMsg("HELLO") EXCEPT
                                           !.id = The(slave_id)]),
                         TEvent("watchdog_ping", TMsg(""))>>
    /\ timeout' = PollWindow
    /\ waited' = 0
    /\ UNCHANGED <<t_pc, t_exc, wheel, fpos, inbox>>
    /\ UNCHANGED <<vars, bvars, pvars>>

\* Lines 277-284 where every tag but FETCH ends the transfer.
TransferRecv_ReturnsOnAny ==
    /\ t_pc = "poll"
    /\ inbox # <<>>
    /\ LET m == Head(inbox)
           o == int(m.kind, m.offset)
           n == int(m.kind, m.size)
           r == Fetch(wheel, fpos, o.val, n.val)
       IN /\ inbox' = Tail(inbox)
          /\ IF m.tag # "FETCH"
             THEN /\ t_pc' = "returned"
                  /\ tlog' = Append(tlog, TEvent("recv", m))
                  /\ UNCHANGED <<t_exc, fpos>>
             ELSE IF o.exc # "" \/ n.exc # ""
                  THEN /\ t_pc' = "raised"
                       /\ t_exc' = "ValueError"
                       /\ tlog' = Append(tlog, TEvent("recv", m))
                       /\ UNCHANGED fpos
                  ELSE /\ fpos' = r.pos
                       /\ tlog' = tlog \o
                            <<TEvent("recv", m),
                              TEvent("send", [TMsg("CHUNK") EXCEPT
                                                !.offset = m.offset,
                                                !.data = r.data])>>
                       /\ UNCHANGED <<t_pc, t_exc>>
    /\ waited' = 0
    /\ UNCHANGED <<wheel, timeout>>
    /\ UNCHANGED <<vars, bvars, pvars>>

\* Lines 277-284: a message is there and is taken; the next poll starts.
\*   DONE: transfer() returns.
\*   FETCH: int() of an argument that is no number raises ValueError, which
\*     leaves transfer(); else CHUNK goes out with the offset as received
\*     and what f.read() returned.
\*   any other tag: no branch takes it, the loop goes on.
TransferRecv ==
    /\ t_pc = "poll"
    /\ inbox # <<>>
    /\ LET m == Head(inbox)
           o == int(m.kind, m.offset)
           n == int(m.kind, m.size)
           r == Fetch(wheel, fpos, o.val, n.val)
       IN /\ inbox' = Tail(inbox)
          /\ IF m.tag = "DONE"
             THEN /\ t_pc' = "returned"
                  /\ tlog' = Append(tlog, TEvent("recv", m))
                  /\ UNCHANGED <<t_exc, fpos>>
             ELSE IF m.tag # "FETCH"
                  THEN /\ tlog' = Append(tlog, TEvent("recv", m))
                       /\ UNCHANGED <<t_pc, t_exc, fpos>>
             ELSE IF o.exc # "" \/ n.exc # ""
                  THEN /\ t_pc' = "raised"
                       /\ t_exc' = "ValueError"
                       /\ tlog' = Append(tlog, TEvent("recv", m))
                       /\ UNCHANGED fpos
                  ELSE /\ fpos' = r.pos
                       /\ tlog' = tlog \o
                            <<TEvent("recv", m),
                              TEvent("send", [TMsg("CHUNK") EXCEPT
                                                !.offset = m.offset,
                                                !.data = r.data])>>
                       /\ UNCHANGED <<t_pc, t_exc>>
    /\ waited' = 0
    /\ UNCHANGED <<wheel, timeout>>
    /\ UNCHANGED <<vars, bvars, pvars>>

\* The peer sends a message and the socket takes it.  The socket of
\* do_send is a DEALER (line 229): its peer can address it only after a
\* message of it, so nothing arrives before the first HELLO went out.  A
\* message the channel drops is one that is never sent here.
PeerSend ==
    /\ t_pc = "poll"
    /\ Hellos > 0
    /\ Len(inbox) + Received < MaxRequests
    /\ \E m \in PeerMessages : inbox' = Append(inbox, m)
    /\ UNCHANGED <<t_pc, t_exc, wheel, fpos, timeout, waited, tlog>>
    /\ UNCHANGED <<vars, bvars, pvars>>

TransferNext == TransferWait \/ TransferPollTimeout \/ TransferRecv \/ PeerSend

\* Time passes and the loop of transfer() goes on; the peer owes nothing.
SpecTransfer ==
    /\ TransferInit
    /\ [][TransferNext]_<<vars, tvars, bvars, pvars>>
    /\ WF_tvars(TransferWait)
    /\ WF_tvars(TransferPollTimeout)
    /\ WF_tvars(TransferRecv)

(* ----------------------- PiWheelsBuilder.build ------------------------- *)

\* proc.wait(10), lines 374 and 379: the seconds of one wait.
WaitSeconds == 10

\* What the clock may add to a wait that expired: datetime.utcnow() is read
\* after the wait, not at its end.
Lateness == {0, 1}

\* The timeout argument of build().  do_build passes config.timeout, the
\* float that duration() returns (__init__.py, lines 89 and 265-273); the
\* default of the parameter is a timedelta (line 317).
Timeouts ==
    [kind : {"float", "timedelta"},
     secs : {WaitSeconds * k : k \in 0 .. MaxTimeoutWaits}]

\* The codes a child may end with by itself, and after SIGTERM: killed by
\* the signal (-15), or ended by its own exit meanwhile.
ExitCodes == {0, 1}

TermCodes == {0 - 15, 0, 1}

\* The Popen object: whether the child runs, and proc.returncode, which is
\* None until a wait() saw the child end.
Popen == [running |-> TRUE, returncode |-> None]

\* datetime.utcnow() - start > timeout, line 376: a timedelta compares
\* with a timedelta, and with a float it raises TypeError.
Exceeds(now, t) ==
    IF t.kind = "timedelta" THEN [exc |-> "", val |-> now > t.secs]
    ELSE [exc |-> "TypeError", val |-> FALSE]

\* do_build, line 207: the PiWheelsBuilder is made, with no working
\* directory, status false and no files; build() is next.
BuildInit ==
    /\ pc = "do_build"
    /\ euid = 1000
    /\ slave_id = Some(1)
    /\ pypi_url \in {Some(u) : u \in Urls}
    /\ \E p \in Packages, v \in Versions :
          builder = Some(PiWheelsBuilder(p, v))
    /\ queue = Some(1)
    /\ request = Some(Msg("IDLE"))
    /\ reply = Some([Msg("BUILD") EXCEPT
                       !.package = The(builder).package,
                       !.version = The(builder).version])
    /\ exc = ""
    /\ exit_code = None
    /\ pause = 0
    /\ nconn = 1
    /\ nreplies = 1
    /\ log = <<>>
    /\ acked = Some([id |-> The(slave_id), url |-> The(pypi_url)])
    /\ NotTransferring
    /\ NoPackage
    /\ b_pc = "new"
    /\ tmo \in {Some(t) : t \in Timeouts}
    /\ proc = None
    /\ elapsed = 0
    /\ error = ""
    /\ b_exc = ""
    /\ signals = <<>>

\* build(), lines 333-356: the working directory is made, the clock
\* starts, Popen is next.
BuildStart ==
    /\ b_pc = "new"
    /\ builder' = Some([The(builder) EXCEPT !.wheel_dir = TRUE])
    /\ b_pc' = "popen"
    /\ UNCHANGED <<tmo, proc, elapsed, error, b_exc, signals>>
    /\ UNCHANGED <<pc, euid, slave_id, pypi_url, queue, request, reply, exc,
                   exit_code, pause, nconn, nreplies, log, acked>>
    /\ UNCHANGED <<tvars, pvars>>

\* Lines 358-366: Popen starts the child, or raises (no pip3, no memory)
\* and the handler of line 385 keeps the exception.
BuildPopen ==
    /\ b_pc = "popen"
    /\ \/ /\ proc' = Some(Popen)
          /\ b_pc' = "wait"
          /\ UNCHANGED error
       \/ /\ error' = "OSError"
          /\ b_pc' = "finish"
          /\ UNCHANGED proc
    /\ UNCHANGED <<tmo, elapsed, b_exc, signals>>
    /\ UNCHANGED <<vars, tvars, pvars>>

\* Lines 372-374 and 383-384: the child ends within the wait; wait() takes
\* its code and the loop breaks with no error.
BuildWaitExit ==
    /\ b_pc = "wait"
    /\ \E c \in ExitCodes :
          proc' = Some([running |-> FALSE, returncode |-> Some(c)])
    /\ b_pc' = "finish"
    /\ UNCHANGED <<tmo, elapsed, error, b_exc, signals>>
    /\ UNCHANGED <<vars, tvars, pvars>>

\* Lines 372-377: the wait expires with the child running and the time is
\* compared with the timeout.  Past it, terminate() is sent and the second
\* wait begins; not past it, the loop goes on; a comparison that raises
\* leaves the loop for the handler of line 385.
BuildWaitExpires ==
    /\ b_pc = "wait"
    /\ \E late \in Lateness :
          LET now == elapsed + WaitSeconds + late
              over == Exceeds(now, The(tmo))
          IN /\ elapsed' = now
             /\ IF over.exc # ""
                THEN /\ error' = over.exc
                     /\ b_pc' = "finish"
                     /\ UNCHANGED signals
                ELSE IF over.val
                THEN /\ signals' = Append(signals, "terminate")
                     /\ b_pc' = "grace"
                     /\ UNCHANGED error
                ELSE /\ b_pc' = "wait"
                     /\ UNCHANGED <<signals, error>>
    /\ UNCHANGED <<tmo, proc, b_exc>>
    /\ UNCHANGED <<vars, tvars, pvars>>

\* Lines 378-379 and 382: the child ends within the second wait; the
\* TimeoutExpired of the first wait is raised again and kept as the error.
BuildGraceExit ==
    /\ b_pc = "grace"
    /\ \E c \in TermCodes :
          proc' = Some([running |-> FALSE, returncode |-> Some(c)])
    /\ error' = "TimeoutExpired"
    /\ b_pc' = "finish"
    /\ UNCHANGED <<tmo, elapsed, b_exc, signals>>
    /\ UNCHANGED <<vars, tvars, pvars>>

\* Lines 379-382: the second wait expires too; kill() is sent, no wait()
\* follows it, so returncode stays None, and the TimeoutExpired of the
\* first wait is raised again and kept as the error.
BuildGraceExpires ==
    /\ b_pc = "grace"
    /\ signals' = Append(signals, "kill")
    /\ elapsed' = elapsed + WaitSeconds
    /\ proc' = Some([running |-> FALSE, returncode |-> None])
    /\ error' = "TimeoutExpired"
    /\ b_pc' = "finish"
    /\ UNCHANGED <<tmo, b_exc>>
    /\ UNCHANGED <<vars, tvars, pvars>>

\* The report with the wheels collected whatever the status.
BuildFinish_CollectsAlways ==
    /\ b_pc = "finish"
    /\ IF proc = None
       THEN /\ b_exc' = "UnboundLocalError"
            /\ b_pc' = "raised"
            /\ UNCHANGED builder
       ELSE LET ok == The(proc).returncode = Some(0)
                out == IF error = "" THEN "log" ELSE "log+error"
            IN /\ \E whl \in WheelLists :
                     builder' = Some([The(builder) EXCEPT
                                        !.status = ok, !.output = out,
                                        !.files = whl])
               /\ b_pc' = "returned"
               /\ UNCHANGED b_exc
    /\ UNCHANGED <<tmo, proc, elapsed, error, signals>>
    /\ UNCHANGED <<pc, euid, slave_id, pypi_url, queue, request, reply, exc,
                   exit_code, pause, nconn, nreplies, log, acked>>
    /\ UNCHANGED <<tvars, pvars>>

\* Lines 389-400: the report.  With no proc (Popen raised) line 390 raises
\* UnboundLocalError, which leaves build(); else status is whether
\* returncode is 0, the error is written after the log, and a build with
\* status true collects the wheels of the directory.
BuildFinish ==
    /\ b_pc = "finish"
    /\ IF proc = None
       THEN /\ b_exc' = "UnboundLocalError"
            /\ b_pc' = "raised"
            /\ UNCHANGED builder
       ELSE LET ok == The(proc).returncode = Some(0)
                out == IF error = "" THEN "log" ELSE "log+error"
            IN /\ \E whl \in (IF ok THEN WheelLists ELSE {<<>>}) :
                     builder' = Some([The(builder) EXCEPT
                                        !.status = ok, !.output = out,
                                        !.files = whl])
               /\ b_pc' = "returned"
               /\ UNCHANGED b_exc
    /\ UNCHANGED <<tmo, proc, elapsed, error, signals>>
    /\ UNCHANGED <<pc, euid, slave_id, pypi_url, queue, request, reply, exc,
                   exit_code, pause, nconn, nreplies, log, acked>>
    /\ UNCHANGED <<tvars, pvars>>

\* clean(), lines 402-408, called on the PiWheelsBuilder while build() is
\* not running: before it, after it returned, or after it raised.  Each
\* call is entered in the log with what it found.
BuildClean ==
    /\ b_pc \in {"new", "returned", "raised"}
    /\ Len(log) < MaxCleans
    /\ builder' = Some(clean(The(builder)))
    /\ log' = Append(log, Event("clean", nconn,
                                IF The(builder).wheel_dir THEN "removed"
                                ELSE "nothing"))
    /\ UNCHANGED <<pc, euid, slave_id, pypi_url, queue, request, reply, exc,
                   exit_code, pause, nconn, nreplies, acked>>
    /\ UNCHANGED <<tvars, bvars, pvars>>

BuildNext ==
    \/ BuildStart
    \/ BuildClean
    \/ BuildPopen
    \/ BuildWaitExit
    \/ BuildWaitExpires
    \/ BuildGraceExit
    \/ BuildGraceExpires
    \/ BuildFinish

SpecBuild == BuildInit /\ [][BuildNext]_<<vars, tvars, bvars, pvars>>

(* -------------------------- PiWheelsPackage ---------------------------- *)

\* The characters of a stem: the dash, a letter, and the five letters of
\* 'noabi' taken as one, so that a field is 'noabi' when it is <<"noabi">>.
Chars == {"-", "a", "noabi"}

\* The stems path.stem may be.
Stems == UNION {[1 .. n -> Chars] : n \in 0 .. MaxStemLen}

\* str.split('-'): the fields between the dashes, empty ones too; a string
\* with no dash is its own single field.
RECURSIVE split(_)
split(str) ==
    IF \A i \in DOMAIN str : str[i] # "-" THEN <<str>>
    ELSE LET i == CHOOSE k \in DOMAIN str :
                     str[k] = "-" /\ \A j \in 1 .. (k - 1) : str[j] # "-"
         IN <<SubSeq(str, 1, i - 1)>> \o split(SubSeq(str, i + 1, Len(str)))

\* list[i] as Python reads it: from the front for i >= 0, from the back
\* for i < 0, IndexError outside the list.
item(list, i) ==
    LET k == IF i >= 0 THEN i + 1 ELSE Len(list) + i + 1
    IN IF k \in DOMAIN list THEN [exc |-> "", val |-> list[k]]
       ELSE [exc |-> "IndexError", val |-> <<>>]

\* __init__ with the count of fields checked.
PiWheelsPackage_Checked(str) ==
    LET ps == split(str)
    IN IF Len(ps) \notin {5, 6} THEN [exc |-> "ValueError", parts |-> None]
       ELSE IF ps[Len(ps) - 1] = <<"noabi">>
       THEN [exc |-> "",
             parts |-> Some([ps EXCEPT ![Len(ps) - 1] = <<"none">>])]
       ELSE [exc |-> "", parts |-> Some(ps)]

\* PiWheelsPackage.__init__, lines 77-80: the fields of the stem, with
\* 'noabi' as the last but one replaced by 'none'.  Reading the last but
\* one of a single field raises IndexError.
PiWheelsPackage(str) ==
    LET ps == split(str)
    IN IF item(ps, 0 - 2).exc # ""
       THEN [exc |-> item(ps, 0 - 2).exc, parts |-> None]
       ELSE IF ps[Len(ps) - 1] = <<"noabi">>
       THEN [exc |-> "",
             parts |-> Some([ps EXCEPT ![Len(ps) - 1] = <<"none">>])]
       ELSE [exc |-> "", parts |-> Some(ps)]

\* The tag properties, lines 131-177.
package_tag(ps) == item(ps, 0)

package_version_tag(ps) == item(ps, 1)

platform_tag(ps) == item(ps, 0 - 1)

abi_tag(ps) == item(ps, 0 - 2)

\* py_version_tag read as the third field from the front.
py_version_tag_FromFront(ps) == item(ps, 2)

py_version_tag(ps) == item(ps, 0 - 3)

build_tag(ps) == IF Len(ps) = 6 THEN Some(item(ps, 2).val) ELSE None

\* build(), line 399: a PiWheelsPackage is about to be made for a file
\* that glob('*.whl') found in the working directory of a build that
\* succeeded.
PackageInit ==
    /\ pc = "do_build"
    /\ euid = 1000
    /\ slave_id = Some(1)
    /\ pypi_url = Some("https://a/simple")
    /\ builder = Some([PiWheelsBuilder("foo", "1.0") EXCEPT
                         !.wheel_dir = TRUE, !.status = TRUE,
                         !.output = "log"])
    /\ queue = Some(1)
    /\ request = Some(Msg("IDLE"))
    /\ reply = Some([Msg("BUILD") EXCEPT
                       !.package = "foo", !.version = "1.0"])
    /\ exc = ""
    /\ exit_code = None
    /\ pause = 0
    /\ nconn = 1
    /\ nreplies = 1
    /\ log = <<>>
    /\ acked = Some([id |-> 1, url |-> "https://a/simple"])
    /\ NotTransferring
    /\ NotBuilding
    /\ p_pc = "new"
    /\ stem \in Stems
    /\ parts = None
    /\ tags = None
    /\ p_exc = ""

\* PiWheelsPackage(path)
PackageNew ==
    /\ p_pc = "new"
    /\ LET r == PiWheelsPackage(stem)
       IN /\ parts' = r.parts
          /\ p_exc' = r.exc
          /\ p_pc' = IF r.exc # "" THEN "raised" ELSE "made"
    /\ UNCHANGED <<stem, tags>>
    /\ UNCHANGED <<vars, tvars, bvars>>

\* The tag properties are read, in the order of as_message (lines 91-95)
\* and then build_tag; the first that raises ends the reading.
PackageTags ==
    /\ p_pc = "made"
    /\ LET ps == The(parts)
           got == <<package_tag(ps), package_version_tag(ps),
                     py_version_tag(ps), abi_tag(ps), platform_tag(ps)>>
           bad == {i \in DOMAIN got : got[i].exc # ""}
       IN IF bad # {}
          THEN /\ p_exc' = got[CHOOSE i \in bad : \A j \in bad : i <= j].exc
               /\ p_pc' = "raised"
               /\ UNCHANGED tags
          ELSE /\ tags' = Some([package |-> got[1].val,
                                version |-> got[2].val,
                                py_version |-> got[3].val,
                                abi |-> got[4].val,
                                platform |-> got[5].val,
                                build |-> build_tag(ps)])
               /\ p_pc' = "read"
               /\ UNCHANGED p_exc
    /\ UNCHANGED <<stem, parts>>
    /\ UNCHANGED <<vars, tvars, bvars>>

PackageNext == PackageNew \/ PackageTags

SpecPackage == PackageInit /\ [][PackageNext]_<<vars, tvars, bvars, pvars>>

(* ------------------------------ claims --------------------------------- *)

IsRecv(i, tag) == log[i].ev = "recv" /\ log[i].tag = tag

IsSend(i, tag) == log[i].ev = "send" /\ log[i].tag = tag

\* The reply at i came after the handshake of its connection.
Acked(i) ==
    \E k \in 1 .. (i - 1) : IsRecv(k, "HELLO") /\ log[k].conn = log[i].conn

\* j is the first message the worker sent after entry i.
FirstSendAfter(i, j) ==
    /\ j > i
    /\ log[j].ev = "send"
    /\ \A k \in (i + 1) .. (j - 1) : log[k].ev # "send"

\* C2: after a round trip times out the worker does not exit: it closes the
\* socket, the next message it sends is HELLO, first on a new connection,
\* and slave_id is None until a HELLO reply arrives.
C2_TimeoutReconnects ==
    /\ \A i \in DOMAIN log :
          log[i].ev = "timeout" =>
             /\ \E j \in (i + 1) .. Len(log) :
                   /\ log[j] = Event("close", log[i].conn, "")
                   /\ \A k \in (i + 1) .. (j - 1) : log[k].ev = "clean"
             /\ \A j \in DOMAIN log :
                   FirstSendAfter(i, j) =>
                      /\ log[j].tag = "HELLO"
                      /\ log[j].conn # log[i].conn
                      /\ log[j - 1] = Event("connect", log[j].conn, "")
             /\ (\A j \in (i + 1) .. Len(log) : ~IsRecv(j, "HELLO"))
                   => slave_id = None
    /\ (log # <<>> /\ log[Len(log)].ev = "close") =>
          pc = "connect" /\ exc = "" /\ exit_code = None

\* C2's case: IDLE timed out after a handshake, and HELLO went out again.
C2_Witness ==
    \E i \in DOMAIN log :
       /\ log[i].ev = "timeout"
       /\ i > 1 /\ IsSend(i - 1, "IDLE")
       /\ Len(log) = i + 3
       /\ log[i + 3] = Event("send", log[i].conn + 1, "HELLO")
       /\ slave_id = None
       /\ pc = "poll"

\* C4 (as claimed): after the handshake, the first message the worker sends
\* after a BUILD reply is BUILT, and when the worker is about to answer a
\* BUILD its request is BUILT with the package and version of the reply.
C4_BuiltAnswersBuild ==
    /\ \A i \in DOMAIN log :
          (IsRecv(i, "BUILD") /\ Acked(i)) =>
             \A j \in DOMAIN log : FirstSendAfter(i, j) => log[j].tag = "BUILT"
    /\ (reply # None /\ The(reply).tag = "BUILD" /\ slave_id # None) =>
          /\ pc \in {"send", "poll"}
          /\ request # None
          /\ The(request).tag = "BUILT"
          /\ The(request).package = The(reply).package
          /\ The(request).version = The(reply).version

\* C4's case: a BUILD arrived after the handshake and the build succeeded.
C4_Witness ==
    /\ reply # None /\ The(reply).tag = "BUILD"
    /\ slave_id # None
    /\ builder # None /\ The(builder).status
    /\ pc = "done"

\* C5 (as claimed): a build that failed does not end the worker: no
\* exception propagates and the worker goes on to send BUILT with
\* success = false.
C5_BuildFailureNotFatal ==
    (/\ reply # None /\ The(reply).tag = "BUILD"
     /\ builder # None /\ The(builder).wheel_dir /\ ~The(builder).status)
       => /\ exc = ""
          /\ pc \in {"send", "poll"}
          /\ request # None /\ The(request).tag = "BUILT"

\* C5's case: the child of a build exited with a non-zero code.
C5_Witness ==
    /\ reply # None /\ The(reply).tag = "BUILD"
    /\ builder # None /\ ~The(builder).status
    /\ The(builder).output = "log"

\* C6: a reply whose tag is no key of the dispatch table is fatal: the step
\* that receives it changes neither slave_id, builder nor pypi_url and
\* raises, and the only message the worker sends afterwards is one BYE.
C6_UnknownTagSteps ==
    (/\ Len(log') > Len(log)
     /\ log'[Len(log) + 1].ev = "recv"
     /\ log'[Len(log) + 1].tag \notin ReplyTags)
       => /\ slave_id' = slave_id
          /\ builder' = builder
          /\ pypi_url' = pypi_url
          /\ exc' = "AssertionError"
          /\ pc' = "finally"
          /\ Len(log') = Len(log) + 1

C6_UnknownTagLog ==
    \A i \in DOMAIN log :
       (log[i].ev = "recv" /\ log[i].tag \notin ReplyTags) =>
          /\ pc \in {"finally", "done"}
          /\ exc = "AssertionError"
          /\ \/ i = Len(log)
             \/ i + 1 = Len(log) /\ log[i + 1] = Event("send", log[i].conn, "BYE")

C6_UnknownTagFatal == [][C6_UnknownTagSteps]_vars /\ []C6_UnknownTagLog

\* C6's case: FOO arrived after the handshake and the worker has ended.
C6_Witness ==
    /\ log # <<>>
    /\ Len(log) > 1 /\ IsRecv(Len(log) - 1, "FOO")
    /\ IsSend(Len(log), "BYE")
    /\ slave_id # None
    /\ pc = "done"

\* C9: from a SLEEP received with an identifier assigned until the next
\* reply or timeout, the worker has slept between 5 and 15 seconds, sent
\* nothing before the sleep ended, and the one message it sends is IDLE.
C9_SleepThenIdle ==
    (reply # None /\ The(reply).tag = "SLEEP" /\ slave_id # None) =>
       /\ pause >= SleepMin /\ pause <= SleepMax
       /\ pc \in {"send", "poll"}
       /\ request = Some(Msg("IDLE"))
       /\ LET n == Len(log)
              c == The(queue)
          IN IF pc = "send"
             THEN /\ n >= 2
                  /\ log[n - 1] = Event("recv", c, "SLEEP")
                  /\ log[n] = Event("sleep", c, "")
             ELSE /\ n >= 3
                  /\ log[n - 2] = Event("recv", c, "SLEEP")
                  /\ log[n - 1] = Event("sleep", c, "")
                  /\ log[n] = Event("send", c, "IDLE")

\* C9's case: the worker slept the longest pause and has sent IDLE.
C9_Witness ==
    /\ reply # None /\ The(reply).tag = "SLEEP"
    /\ slave_id # None
    /\ pause = SleepMax
    /\ pc = "poll"
    /\ IsSend(Len(log), "IDLE")

\* C10: on one connection a reply was received between a request and any
\* later message, and after a timeout nothing is sent on that connection.
C10_RequestThenReply ==
    /\ \A i, j \in DOMAIN log :
          (/\ i < j
           /\ log[i].ev = "send" /\ log[i].tag \in RequestTags
           /\ log[j].ev = "send" /\ log[j].conn = log[i].conn)
             => \E k \in (i + 1) .. (j - 1) :
                   log[k].ev = "recv" /\ log[k].conn = log[i].conn
    /\ \A i, j \in DOMAIN log :
          (i < j /\ log[i].ev = "timeout" /\ log[j].conn = log[i].conn)
             => log[j].ev # "send"

\* C10's case: two requests answered on one connection, a third timed out
\* and a request went out on the next connection.
C10_Witness ==
    \E i \in DOMAIN log :
       /\ log[i].ev = "timeout"
       /\ Cardinality({k \in 1 .. i : log[k].ev = "send"
                                      /\ log[k].conn = log[i].conn}) >= 3
       /\ \E j \in (i + 1) .. Len(log) : log[j].ev = "send"

\* k is a reply, and no reply or timeout came after it: the variable reply
\* holds its message.
LastReplyAt(k) ==
    /\ log[k].ev = "recv"
    /\ \A j \in (k + 1) .. Len(log) : log[j].ev \notin {"recv", "timeout"}

\* The reply at k answered the HELLO greeting of its connection.
AnswersGreeting(k) ==
    /\ k > 1
    /\ log[k].ev = "recv"
    /\ log[k - 1] = Event("send", log[k].conn, "HELLO")

Unmet(m) ==
    \/ m.tag = "HELLO" /\ slave_id # None
    \/ m.tag \in {"SLEEP", "BUILD", "SEND", "DONE"} /\ slave_id = None
    \/ m.tag = "SEND" /\ (builder = None \/ ~The(builder).status)
    \/ m.tag = "DONE" /\ builder = None

\* C13: the step that receives a reply whose precondition is unmet raises
\* AssertionError and does nothing else: no sleep, no build, no transfer, no
\* directory removed, slave_id, builder and pypi_url as they were.
C13_UnmetStep ==
    (nreplies' = nreplies + 1 /\ Unmet(The(reply')))
       => /\ exc' = "AssertionError"
          /\ pc' = "finally"
          /\ slave_id' = slave_id
          /\ builder' = builder
          /\ pypi_url' = pypi_url
          /\ pause' = 0
          /\ log' = Append(log, Event("recv", The(queue), The(reply').tag))

C13_ValidatedBeforeEffect == [][C13_UnmetStep]_vars

\* C13's case: DONE arrived after the handshake with no build to be done.
C13_Witness ==
    /\ Len(log) = 5
    /\ IsRecv(3, "HELLO") /\ IsRecv(5, "DONE")
    /\ slave_id # None /\ builder = None
    /\ exc = "AssertionError"

\* C14: a BYE of the master is accepted whenever it arrives: nothing is
\* raised, the working directory of a build that exists is removed, and all
\* that follows is the farewell: no request, no new connection.
C14_ByeEndsSession ==
    \A k \in DOMAIN log :
       IsRecv(k, "BYE") =>
          /\ exc = ""
          /\ pc \in {"finally", "done"}
          /\ request = None
          /\ builder # None => ~The(builder).wheel_dir
          /\ pc = "done" => exit_code = Some(0)
          /\ \A j \in (k + 1) .. Len(log) :
                \/ log[j] = Event("clean", log[k].conn, "")
                \/ j = Len(log) /\ log[j] = Event("send", log[k].conn, "BYE")

\* C14's case: BYE answered the greeting, before any handshake, and the
\* worker has ended.
C14_Witness ==
    /\ Len(log) = 4
    /\ AnswersGreeting(3) /\ IsRecv(3, "BYE")
    /\ slave_id = None
    /\ pc = "done"
    /\ exit_code = Some(0)

\* C15: when the loop has ended, the log ends with the one BYE the worker
\* sent, on the socket that was open; before that it has sent none.
C15_OneFarewell ==
    LET byes == {i \in DOMAIN log : IsSend(i, "BYE")}
    IN IF pc = "done"
       THEN /\ byes = {Len(log)}
            /\ log[Len(log)].conn = nconn
            /\ queue = Some(nconn)
       ELSE byes = {}

\* C15's case: the loop ended by a failed assertion on the second socket.
C15_Witness ==
    /\ pc = "done"
    /\ exc = "AssertionError"
    /\ nconn = 2

\* C16: a worker started as root opens no socket, sends nothing, builds
\* nothing and returns 1.
C16_RootRefused ==
    euid = 0 =>
       /\ pc \in {"start", "refused"}
       /\ log = <<>>
       /\ nconn = 0 /\ queue = None
       /\ builder = None
       /\ pc = "refused" => exit_code = Some(1)

\* C16's case: the root worker has returned.
C16_Witness == euid = 0 /\ pc = "refused" /\ exit_code = Some(1)

\* Entry k of tlog is a FETCH with numbers for arguments.
IsFetch(k) ==
    /\ tlog[k].ev = "recv"
    /\ tlog[k].msg.tag = "FETCH"
    /\ tlog[k].msg.kind = "int"

IsChunk(k) == tlog[k].ev = "send" /\ tlog[k].msg.tag = "CHUNK"

\* The bytes of the file from offset to offset + size, as far as it has them.
Range(offset, size) ==
    LET rest == IF offset >= Len(wheel) THEN 0 ELSE Len(wheel) - offset
        n == IF size <= rest THEN size ELSE rest
    IN [i \in 1 .. n |-> wheel[offset + i]]

\* C17: every FETCH(offset, size) is followed at once by one CHUNK with that
\* offset whose data are the file's bytes from offset to offset + size, as
\* far as the file has them: size bytes when the range lies inside the file,
\* fewer when it runs past the end.  Equal requests get equal answers,
\* whatever came between them.
C17_ChunkIsRange ==
    /\ \A k \in DOMAIN tlog :
          IsFetch(k) =>
             /\ k + 1 \in DOMAIN tlog
             /\ IsChunk(k + 1)
             /\ tlog[k + 1].msg.offset = tlog[k].msg.offset
             /\ tlog[k + 1].msg.data
                  = Range(tlog[k].msg.offset, tlog[k].msg.size)
             /\ tlog[k].msg.offset + tlog[k].msg.size <= Len(wheel)
                   => Len(tlog[k + 1].msg.data) = tlog[k].msg.size
             /\ k + 2 \in DOMAIN tlog => ~IsChunk(k + 2)
    /\ \A k \in DOMAIN tlog : IsChunk(k) => k > 1 /\ IsFetch(k - 1)
    /\ \A j, k \in DOMAIN tlog :
          (IsFetch(j) /\ IsFetch(k) /\ tlog[j].msg = tlog[k].msg)
             => tlog[j + 1] = tlog[k + 1]

\* C17's case: on a file of two bytes, a FETCH that runs past the end and
\* then one for the whole file, out of order: one byte, then both.
C17_Witness ==
    /\ Len(wheel) = 2
    /\ Len(tlog) = 6
    /\ IsFetch(3) /\ tlog[3].msg.offset = 1 /\ tlog[3].msg.size = 2
    /\ IsChunk(4) /\ tlog[4].msg.data = <<2>>
    /\ IsFetch(5) /\ tlog[5].msg.offset = 0 /\ tlog[5].msg.size = 2
    /\ IsChunk(6) /\ tlog[6].msg.data = <<1, 2>>

\* C17 as stated: the CHUNK that answers FETCH(offset, size) carries exactly
\* size bytes, for every offset and size.
C17_ExactlySizeBytes ==
    \A k \in DOMAIN tlog :
       IsFetch(k) =>
          /\ k + 1 \in DOMAIN tlog
          /\ IsChunk(k + 1)
          /\ tlog[k + 1].msg.offset = tlog[k].msg.offset
          /\ Len(tlog[k + 1].msg.data) = tlog[k].msg.size

\* The peer has sent nothing so far.
PeerSilent == inbox = <<>> /\ Received = 0

\* A step that sends a greeting: nothing was there to receive, the wait of
\* the poll was over, which is no wait for the first greeting and 5 for
\* every later one, and the greeting carries the worker's id.
C18_GreetingStep ==
    Hellos' > Hellos =>
       /\ inbox = <<>>
       /\ waited = timeout
       /\ timeout = (IF tlog = <<>> THEN 0 ELSE PollWindow)
       /\ Hellos' = Hellos + 1
       /\ tlog'[Len(tlog) + 1]
            = TEvent("send", [TMsg("HELLO") EXCEPT !.id = The(slave_id)])

IsDone(k) == tlog[k].ev = "recv" /\ tlog[k].msg.tag = "DONE"

\* C19: transfer() has returned exactly when it has received DONE, and the
\* DONE is the last entry of its log: nothing was sent after it.  Greetings
\* that time out and requests other than DONE never end it; the one other
\* way out is the ValueError of a FETCH that is no request.  A DONE that
\* waits in the socket is received: transfer() ends, and it returns when it
\* is still in its loop and the DONE is the next message.
C19_ReturnsOnDone ==
    /\ [](t_pc = "returned" <=> \E k \in DOMAIN tlog : IsDone(k))
    /\ [](\A k \in DOMAIN tlog : IsDone(k) => k = Len(tlog))
    /\ [](t_pc = "raised" <=>
            /\ tlog # <<>>
            /\ tlog[Len(tlog)].ev = "recv"
            /\ tlog[Len(tlog)].msg.tag = "FETCH"
            /\ tlog[Len(tlog)].msg.kind = "text")
    /\ (\E i \in DOMAIN inbox : inbox[i].tag = "DONE")
          ~> (t_pc \in {"returned", "raised"})
    /\ (t_pc = "poll" /\ inbox # <<>> /\ Head(inbox).tag = "DONE")
          ~> (t_pc = "returned")

\* C19's case: a FETCH was answered, DONE came and transfer() has returned.
C19_Witness ==
    /\ t_pc = "returned"
    /\ Len(tlog) = 5
    /\ IsFetch(3) /\ IsChunk(4) /\ IsDone(5)
    /\ Hellos = 1

\* C20: once the time since start is past the timeout, terminate() has been
\* sent; kill() is sent only after terminate() and only to a child that did
\* not end within the second wait; and a build that was signalled returns
\* with status false and raises nothing.
C20_TimeoutEscalation ==
    /\ (tmo # None /\ elapsed > The(tmo).secs)
          => (signals # <<>> /\ signals[1] = "terminate")
    /\ (\E i \in DOMAIN signals : signals[i] = "kill")
          => /\ signals = <<"terminate", "kill">>
             /\ The(proc).returncode = None
    /\ (signals # <<>> /\ b_pc \in {"returned", "raised"})
          => /\ b_pc = "returned"
             /\ ~The(builder).status

\* C20's case: a build with the timeout do_build passes has returned; the
\* child ran past the timeout and got no signal.
C20_Witness ==
    /\ b_pc = "returned"
    /\ The(tmo).kind = "float"
    /\ elapsed > The(tmo).secs
    /\ signals = <<>>
    /\ The(proc).running
    /\ error = "TypeError"
    /\ ~The(builder).status

\* The fields of the stem, counted by its dashes.
NFields == Cardinality({i \in DOMAIN stem : stem[i] = "-"}) + 1

\* C21: an Artifact is made from every stem but one with a single field,
\* which fails with IndexError; no count of 5 or 6 fields is asked for, and
\* the Artifact holds as many fields as the stem has.
C21_OnlySingleFieldFails ==
    p_pc # "new" =>
       /\ parts = None <=> NFields = 1
       /\ parts = None => p_pc = "raised" /\ p_exc = "IndexError"
       /\ parts # None => Len(The(parts)) = NFields

\* C21's case: an Artifact was made from a stem of seven fields.
C21_Witness == p_pc = "made" /\ NFields = 7 /\ parts # None /\ p_exc = ""

\* C21 as stated: from a stem of fewer than 5 or more than 6 fields no
\* Artifact is made.
C21_FieldCountChecked ==
    (p_pc # "new" /\ NFields \notin {5, 6}) => (parts = None /\ p_pc = "raised")

\* The fields joined with dashes.
RECURSIVE join(_)
join(fields) ==
    IF Len(fields) = 1 THEN fields[1]
    ELSE fields[1] \o <<"-">> \o join(Tail(fields))

\* The tags in the order of the name, the build tag where there is one.
TagList(t) ==
    <<t.package, t.version>>
    \o (IF t.build = None THEN <<>> ELSE <<The(t.build)>>)
    \o <<t.py_version, t.abi, t.platform>>

\* C22: the tags of a stem of 5 or 6 fields are all read, and joined with
\* dashes they give the stem back, or, where the ABI tag reads 'none', the
\* stem with 'noabi' in its place; the build tag is None exactly for 5
\* fields.
C22_TagsRoundTrip ==
    NFields \in {5, 6} =>
       /\ p_pc \in {"new", "made", "read"}
       /\ p_pc = "read" =>
             LET t == The(tags)
             IN /\ \/ join(TagList(t)) = stem
                   \/ /\ t.abi = <<"none">>
                      /\ join(TagList([t EXCEPT !.abi = <<"noabi">>])) = stem
                /\ t.abi # <<"noabi">>
                /\ t.build = None <=> NFields = 5
                /\ Len(TagList(t)) = NFields

\* C22's case: a stem of 6 fields whose ABI is 'noabi' was read.
C22_Witness ==
    /\ p_pc = "read"
    /\ NFields = 6
    /\ The(tags).abi = <<"none">>
    /\ The(tags).build # None
    /\ join(TagList(The(tags))) # stem

\* C24: the list of artifacts of a BuildJob is non-empty only when its
\* success flag is true: it is empty until build() has returned, empty after
\* a build whose child did not end with code 0, and filled only by a build
\* that returned with the flag true.
C24_FilesOnlyOnSuccess ==
    LET b == The(builder)
    IN /\ b.files # <<>> => b.status
       /\ b.files # <<>> => The(proc).returncode = Some(0)
       /\ b_pc # "returned" => (b.files = <<>> /\ ~b.status)

\* C24's case: a build returned with the flag true and two wheels.
C24_Witness ==
    /\ b_pc = "returned"
    /\ The(builder).status
    /\ Len(The(builder).files) = 2

\* A step that is a call of clean().
IsClean ==
    /\ Len(log') = Len(log) + 1
    /\ log'[Len(log')].ev = "clean"

\* C25: clean() leaves the BuildJob with no working directory and changes
\* nothing else; called when there is none, before a build or a second
\* time, it changes nothing at all.
C25_CleanIdempotent ==
    [][IsClean =>
          /\ ~The(builder').wheel_dir
          /\ builder' = Some([The(builder) EXCEPT !.wheel_dir = FALSE])
          /\ ~The(builder).wheel_dir => builder' = builder
      ]_<<vars, tvars, bvars, pvars>>

\* C25's case: after a build, clean() removed the directory and a second
\* clean() found nothing.
C25_Witness ==
    /\ b_pc = "returned"
    /\ Len(log) = 2
    /\ log[1].tag = "removed"
    /\ log[2].tag = "nothing"
    /\ ~The(builder).wheel_dir

\* C26: build() never raises: an error of the spawn, the supervision or
\* the timeout is kept, written after the log, and the build returns
\* with the success flag false.
C26_BuildNeverRaises ==
    /\ b_pc # "raised"
    /\ b_exc = ""
    /\ (b_pc = "returned" /\ error # "")
          => (~The(builder).status /\ The(builder).output = "log+error")

\* C26's case: Popen raised and build() raised in turn.
C26_Witness ==
    /\ b_pc = "raised"
    /\ error = "OSError"
    /\ b_exc = "UnboundLocalError"
    /\ proc = None
    /\ The(builder).output = ""

\* A step that sends the HELLO greeting on the session channel.
C27_GreetingStep ==
    /\ Len(log') = Len(log) + 1
    /\ log'[Len(log')].ev = "send"
    /\ log'[Len(log')].tag = "HELLO"

\* C27: whenever the HELLO greeting is sent on the session channel, the
\* worker holds no identifier and no BuildJob, before the step and after.
C27_GreetsUnidentified ==
    [][C27_GreetingStep =>
          /\ slave_id = None /\ builder = None
          /\ slave_id' = None /\ builder' = None]_vars

\* C27's case: after a handshake and a timeout the greeting went out
\* again, on the second connection.
C27_Witness ==
    /\ Len(log) >= 6
    /\ IsRecv(3, "HELLO")
    /\ log[Len(log)] = Event("send", 2, "HELLO")
    /\ slave_id = None /\ builder = None

\* The entries the step adds to the log.
Added == SubSeq(log', Len(log) + 1, Len(log'))

\* C28: a build is started, and a transfer greeted, only with an
\* acknowledgment received on the current connection since the last
\* timeout, and with the URL and the identifier of that acknowledgment;
\* while none was received the worker holds no identifier.
C28_Step ==
    \A i \in DOMAIN Added :
       /\ Added[i].ev = "build" =>
             /\ acked # None
             /\ Added[i].tag = The(acked).url
             /\ Added[i].conn = The(queue)
       /\ Added[i].ev \in {"transfer_open", "transfer_hello"} =>
             /\ acked # None
             /\ slave_id = Some(The(acked).id)
             /\ Added[i].conn = The(queue)

C28_NothingStale ==
    [][/\ C28_Step
       /\ acked' = None => slave_id' = None
       /\ acked' # None =>
             /\ slave_id' = Some(The(acked').id)
             /\ pypi_url' = Some(The(acked').url)]_vars

\* C28's case: a build ran on the second connection, after a handshake on
\* the first, a timeout and a second handshake.
C28_Witness ==
    \E i \in DOMAIN log :
       /\ log[i].ev = "build"
       /\ log[i].conn = 2
       /\ log[i].tag = The(pypi_url)
       /\ \E k \in 1 .. (i - 1) : IsRecv(k, "HELLO") /\ log[k].conn = 1
       /\ \E k \in 1 .. (i - 1) : log[k].ev = "timeout" /\ log[k].conn = 1

\* C29: when the session loop has ended and the farewell is sent, the
\* working directory of a BuildJob that is still held has been removed.
C29_CleanedBeforeFarewell ==
    (pc = "done" /\ log # <<>> /\ log[Len(log)].tag = "BYE" /\ builder # None)
       => ~The(builder).wheel_dir

\* C29's case: a build was made, do_build raised, and the farewell went
\* out with the working directory of the build in place.
C29_Witness ==
    /\ pc = "done"
    /\ log[Len(log)] = Event("send", The(queue), "BYE")
    /\ \E i \in DOMAIN log : log[i].ev = "build"
    /\ \A i \in DOMAIN log : log[i].ev # "clean"
    /\ exc = "TypeError"
    /\ builder # None
    /\ The(builder).wheel_dir

\* A step of transfer() that receives a message whose tag is neither FETCH
\* nor DONE.
C30_UnknownStep ==
    /\ inbox # <<>>
    /\ inbox' = Tail(inbox)
    /\ Head(inbox).tag \notin {"FETCH", "DONE"}

\* C30: transfer() ignores a message whose tag is neither FETCH nor DONE:
\* nothing is sent in reply, transfer() neither returns nor raises, and the
\* wait of the next poll and the position in the file are as before.
C30_UnknownIgnored ==
    [][C30_UnknownStep =>
          /\ tlog' = Append(tlog, TEvent("recv", Head(inbox)))
          /\ t_pc' = "poll"
          /\ t_exc' = ""
          /\ timeout' = timeout
          /\ fpos' = fpos
          /\ wheel' = wheel
      ]_<<vars, tvars, bvars, pvars>>

\* C30's case: an unknown message was received, and the DONE that came
\* after it was served.
C30_Witness ==
    /\ t_pc = "returned"
    /\ \E k \in DOMAIN tlog :
          /\ tlog[k] = TEvent("recv", TMsg("NOP"))
          /\ k + 1 = Len(tlog)
          /\ IsDone(k + 1)

====
